---------------------------- MODULE Spec2Model ----------------------------
(***************************************************************************)
(* broken_link_checker.py: a sequential bounded-depth crawler (crawl), a   *)
(* link verifier (check_link) and the thread-pool pipeline of main().      *)
(*                                                                         *)
(* A URL string is kept in the parsed form urlparse gives it: a record     *)
(* [scheme, netloc, path, fragment].  A fetched document is the set of the *)
(* href values of its <a href=...> tags, each href in the same parsed form *)
(* (an empty scheme/netloc/path marks the part the href leaves out).       *)
(***************************************************************************)
EXTENDS Integers, Sequences, FiniteSets, TLC

(***************************************************************************)
(* Bounds of the model.                                                    *)
(***************************************************************************)
MaxDepth == 2
MaxLinks == 2
MaxWorkers == 2

(***************************************************************************)
(* The universe of URLs: three pages on the seed's host, one elsewhere.    *)
(***************************************************************************)
SeedHost == "a.test"
OtherHost == "x.test"
SeedPaths == {"/", "/p", "/q"}

Url(n, p) == [scheme |-> "https", netloc |-> n, path |-> p, fragment |-> ""]

Seed == Url(SeedHost, "/")
Urls == {Url(SeedHost, p) : p \in SeedPaths} \cup {Url(OtherHost, "/")}

\* The same-host link to u as a page writes it: href="/p".
RelHref(u) == [scheme |-> "", netloc |-> "", path |-> u.path, fragment |-> ""]

\* The hrefs a page served at r may carry: root-relative hrefs to the other
\* pages of its own host, absolute hrefs to the pages of the other host.
HrefsOn(r) ==
    {RelHref(u) : u \in {v \in Urls : v.netloc = r.netloc /\ v # r}}
        \cup {v \in Urls : v.netloc # r.netloc}

Docs(r) == {d \in SUBSET HrefsOn(r) : Cardinality(d) <= MaxLinks}

Webs == {w \in [Urls -> UNION {Docs(r) : r \in Urls}] : \A r \in Urls : w[r] \in Docs(r)}

(***************************************************************************)
(* urllib.parse.urljoin for hrefs whose path, when present, is absolute.   *)
(***************************************************************************)
urljoin(base, href) ==
    IF href.scheme # "" /\ href.scheme # base.scheme THEN href
    ELSE IF href.netloc # "" THEN
        [scheme |-> base.scheme, netloc |-> href.netloc,
         path |-> href.path, fragment |-> href.fragment]
    ELSE IF href.path = "" THEN
        [scheme |-> base.scheme, netloc |-> base.netloc,
         path |-> base.path, fragment |-> href.fragment]
    ELSE
        [scheme |-> base.scheme, netloc |-> base.netloc,
         path |-> href.path, fragment |-> href.fragment]

\* extract_links: the set of the joined hrefs whose scheme is http or https.
extract_links(base_url, html) ==
    {full_url \in {urljoin(base_url, href) : href \in html} :
        full_url.scheme \in {"http", "https"}}


\* What requests sends: the URL without its fragment.
Resource(url) == [url EXCEPT !.fragment = ""]

\* urlparse(url).netloc
netloc(url) == url.netloc

\* The orders in which iterating a Python set can yield its elements.
Orderings(S) ==
    {s \in [1..Cardinality(S) -> S] : \A i, j \in 1..Cardinality(S) : s[i] = s[j] => i = j}

\* The elements of a sequence.
Range(s) == {s[i] : i \in 1..Len(s)}

VARIABLES
    web,                \* environment: the document each URL serves
    down,               \* environment: the URLs whose page fetch fails
    depth,              \* args.depth / crawl's depth
    same_domain_only,   \* args.same_domain / crawl's same_domain_only
    workers,            \* args.workers (MAX_WORKERS)
    pc,                 \* position in main() or crawl()
    visited,            \* crawl: visited
    to_visit,           \* crawl: to_visit, a stack of <<url, depth>>
    all_links,          \* crawl: all_links
    fetchLog,           \* history: url -> the depths at which crawl fetched it
    links,              \* main: links (crawl's return value); iteration order is not kept
    pending,            \* pipeline: the executor's work queue (submitted, not started)
    running,            \* pipeline: the URLs a worker thread is checking
    done,               \* pipeline: completed futures not yet yielded, as result triples
    calls,              \* history: url -> number of check_link invocations
    submits,            \* history: url -> number of executor.submit calls
    outcomes,           \* history: the result triples as_completed has yielded, in order
    broken,             \* main: broken, a list of <<url, reason>>
    exit_code,          \* the process's exit status; NotExited while running
    probe,              \* verifier harness: the URL and the server's HEAD and GET answers
    verdict,            \* verifier harness: what check_link returned for probe
    given,              \* extractor harness: the arguments base_url and html
    extracted           \* extractor harness: what extract_links returned for given

envVars == <<web, down, depth, same_domain_only, workers>>
crawlVars == <<visited, to_visit, all_links, fetchLog>>
poolVars == <<pending, running, done, calls, submits, outcomes, broken>>
harnessVars == <<probe, verdict, given, extracted>>
vars == <<envVars, pc, crawlVars, links, poolVars, exit_code, harnessVars>>

NotExited == -1

(***************************************************************************)
(* fetch_page.  A URL in down answers with one of three faults, all of     *)
(* which leave the caller with a falsy html: the request raises, the       *)
(* status is not 200, or the body is the empty string.                     *)
(***************************************************************************)
Faults == {"exception", "status", "blank"}

requests_get(url, fault) ==
    IF Resource(url) \in down
    THEN [raised |-> fault = "exception",
          status_code |-> IF fault = "status" THEN 404 ELSE 200,
          blank |-> TRUE, text |-> {}]
    ELSE [raised |-> FALSE, status_code |-> 200,
          blank |-> FALSE, text |-> web[Resource(url)]]

None == [none |-> TRUE, blank |-> TRUE, text |-> {}]

fetch_page(url, fault) ==
    LET response == requests_get(url, fault)
    IN  IF response.raised THEN None
        ELSE IF response.status_code = 200
             THEN [none |-> FALSE, blank |-> response.blank, text |-> response.text]
             ELSE None

\* Python's "not html": None or the empty string.
Falsy(html) == html.none \/ html.blank

(***************************************************************************)
(* crawl(base_url, depth, same_domain_only)                                *)
(***************************************************************************)
base_domain == netloc(Seed)

\* Line 64 without the domain test.
KeptUnfiltered(page_links) == page_links

\* Line 64 with == for !=.
KeptOffHost(page_links) ==
    {link \in page_links : ~(same_domain_only /\ netloc(link) = base_domain)}

\* Line 64: the links of one page that the domain filter lets through.
Kept(page_links) ==
    {link \in page_links : ~(same_domain_only /\ netloc(link) # base_domain)}

\* Line 54 without the visited test.
DiscardedByDepth(current_url, current_depth) == current_depth > depth

\* Line 54: the entry just popped is dropped without a fetch.
Discarded(current_url, current_depth) ==
    current_url \in visited \/ current_depth > depth

\* Line 67 with <= for <.
FollowsAtBound(current_depth) == current_depth <= depth

\* Line 67: the links of a page fetched at current_depth are pushed.
Follows(current_depth) == current_depth < depth

\* Line 53 reading the last entry without removing it.
PoppedPeek == to_visit

Top == to_visit[Len(to_visit)]
Popped == SubSeq(to_visit, 1, Len(to_visit) - 1)

CrawlEnter ==
    /\ visited' = {}
    /\ to_visit' = <<<<Seed, 0>>>>
    /\ all_links' = {}
    /\ fetchLog' = [u \in Urls |-> <<>>]

\* One iteration that ends at line 55.
CrawlSkip ==
    /\ pc = "crawl"
    /\ to_visit # <<>>
    /\ Discarded(Top[1], Top[2])
    /\ to_visit' = Popped
    /\ UNCHANGED <<envVars, pc, visited, all_links, fetchLog, links, poolVars,
                   exit_code, harnessVars>>

\* CrawlFetchFailed with break for continue at line 60: the loop is left.
CrawlFetchFailedBreaks ==
    /\ pc = "crawl"
    /\ to_visit # <<>>
    /\ ~Discarded(Top[1], Top[2])
    /\ \E fault \in Faults : Falsy(fetch_page(Top[1], fault))
    /\ visited' = visited \cup {Top[1]}
    /\ fetchLog' = [fetchLog EXCEPT ![Top[1]] = Append(@, Top[2])]
    /\ to_visit' = <<>>
    /\ UNCHANGED <<envVars, pc, all_links, links, poolVars, exit_code, harnessVars>>

\* One iteration that ends at line 60.
CrawlFetchFailed ==
    /\ pc = "crawl"
    /\ to_visit # <<>>
    /\ ~Discarded(Top[1], Top[2])
    /\ \E fault \in Faults : Falsy(fetch_page(Top[1], fault))
    /\ visited' = visited \cup {Top[1]}
    /\ fetchLog' = [fetchLog EXCEPT ![Top[1]] = Append(@, Top[2])]
    /\ to_visit' = Popped
    /\ UNCHANGED <<envVars, pc, all_links, links, poolVars, exit_code, harnessVars>>

\* One iteration that runs the for loop of lines 63-68.
CrawlExpand ==
    /\ pc = "crawl"
    /\ to_visit # <<>>
    /\ ~Discarded(Top[1], Top[2])
    /\ \E fault \in Faults :
        LET current_url == Top[1]
            current_depth == Top[2]
            html == fetch_page(current_url, fault)
            kept == Kept(extract_links(current_url, html.text))
        IN  /\ ~Falsy(html)
            /\ visited' = visited \cup {current_url}
            /\ fetchLog' = [fetchLog EXCEPT ![current_url] = Append(@, current_depth)]
            /\ all_links' = all_links \cup kept
            /\ IF Follows(current_depth)
               THEN \E order \in Orderings(kept) :
                        to_visit' = Popped \o [i \in 1..Len(order) |-> <<order[i], current_depth + 1>>]
               ELSE to_visit' = Popped
    /\ UNCHANGED <<envVars, pc, links, poolVars, exit_code, harnessVars>>

\* Line 70.
CrawlReturn ==
    /\ pc = "crawl"
    /\ to_visit = <<>>
    /\ links' = all_links
    /\ pc' = "found"
    /\ UNCHANGED <<envVars, crawlVars, poolVars, exit_code, harnessVars>>

(***************************************************************************)
(* The crawler on its own: crawl(Seed, depth, same_domain_only) called on  *)
(* every web of the family, with every set of failing URLs.                *)
(***************************************************************************)
IdlePool ==
    /\ pending = <<>>
    /\ running = {}
    /\ done = {}
    /\ calls = [u \in Urls |-> 0]
    /\ submits = [u \in Urls |-> 0]
    /\ outcomes = <<>>
    /\ broken = <<>>

NoProbe == [url |-> Seed, head |-> [code |-> 0, error |-> ""], get |-> [code |-> 0, error |-> ""]]
NoVerdict == <<Seed, FALSE, [code |-> 0, error |-> ""]>>

NoDocument == [base_url |-> Seed, html |-> {}]

IdleHarness ==
    /\ probe = NoProbe
    /\ verdict = NoVerdict
    /\ given = NoDocument
    /\ extracted = {}

\* The document of a failing URL is never read: it is fixed to the empty one.
World ==
    /\ web \in Webs
    /\ down \in SUBSET Urls
    /\ \A r \in down : web[r] = {}
    /\ depth \in 0..MaxDepth
    /\ same_domain_only \in BOOLEAN

InitCrawl ==
    /\ World
    /\ workers = 1
    /\ pc = "crawl"
    /\ visited = {}
    /\ to_visit = <<<<Seed, 0>>>>
    /\ all_links = {}
    /\ fetchLog = [u \in Urls |-> <<>>]
    /\ links = {}
    /\ IdlePool
    /\ exit_code = NotExited
    /\ IdleHarness

NextCrawl ==
    \/ CrawlSkip
    \/ CrawlFetchFailed
    \/ CrawlExpand
    \/ CrawlReturn

SpecCrawl == InitCrawl /\ [][NextCrawl]_vars


(***************************************************************************)
(* check_link.  The server's answer to a request is a status code, or the  *)
(* description of the transport error that made the request raise; both    *)
(* are kept in one record shape, [code, error], error = "" for a status.   *)
(* A result is the triple <<url, ok, reason>> that check_link returns.     *)
(***************************************************************************)
Status(code) == [code |-> code, error |-> ""]
Raised(description) == [code |-> 0, error |-> description]

\* Line 40 with > for >=.
IsErrorStatusAbove(status_code) == status_code > 400

\* Line 40: the status that makes a link broken.
IsErrorStatus(status_code) == status_code >= 400

\* check_link whose except branch reports the link as fine.
check_link_lenient(url, head) ==
    IF head.error # "" THEN <<url, TRUE, Raised(head.error)>>
    ELSE IF IsErrorStatus(head.code) THEN <<url, FALSE, Status(head.code)>>
    ELSE <<url, TRUE, Status(head.code)>>

check_link(url, head) ==
    IF head.error # "" THEN <<url, FALSE, Raised(head.error)>>
    ELSE IF IsErrorStatus(head.code) THEN <<url, FALSE, Status(head.code)>>
    ELSE <<url, TRUE, Status(head.code)>>

StatusCodes == {200, 399, 400, 404, 405, 500}
TransportErrors == {"timeout", "connection refused"}
Answers == {Status(c) : c \in StatusCodes} \cup {Raised(e) : e \in TransportErrors}

\* The answers the pipeline's servers give: one healthy, two broken.
PoolAnswers == {Status(200), Status(404), Raised("timeout")}

(***************************************************************************)
(* main()                                                                  *)
(***************************************************************************)
\* Lines 108-109: args.depth > 0, crawl is called.
MainCrawl ==
    /\ pc = "main"
    /\ depth > 0
    /\ CrawlEnter
    /\ pc' = "crawl"
    /\ UNCHANGED <<envVars, links, poolVars, exit_code, harnessVars>>

\* Lines 110-114: args.depth = 0 and the base page is not fetched.
MainSeedUnfetchable ==
    /\ pc = "main"
    /\ ~(depth > 0)
    /\ \E fault \in Faults : Falsy(fetch_page(Seed, fault))
    /\ exit_code' = 1
    /\ pc' = "exited"
    /\ UNCHANGED <<envVars, crawlVars, links, poolVars, harnessVars>>

\* Lines 116-118: the host filter of the single-page branch.
SameHost(page_links) == {l \in page_links : netloc(l) = netloc(Seed)}

\* Lines 115-118: the links of the single-page branch, from the fetched html.
SinglePageLinks(html) ==
    LET found == extract_links(Seed, html.text)
    IN  IF same_domain_only THEN SameHost(found) ELSE found

\* Lines 110-118: args.depth = 0 and the base page is fetched.
MainSinglePage ==
    /\ pc = "main"
    /\ ~(depth > 0)
    /\ \E fault \in Faults :
        LET html == fetch_page(Seed, fault)
        IN  /\ ~Falsy(html)
            /\ links' = SinglePageLinks(html)
    /\ pc' = "found"
    /\ UNCHANGED <<envVars, crawlVars, poolVars, exit_code, harnessVars>>

\* Lines 120-122: main returns, the interpreter exits with status 0.
MainNoLinks ==
    /\ pc = "found"
    /\ links = {}
    /\ exit_code' = 0
    /\ pc' = "exited"
    /\ UNCHANGED <<envVars, crawlVars, links, poolVars, harnessVars>>

\* Lines 124-127: broken = [] and the executor is created.
MainDispatch ==
    /\ pc = "found"
    /\ links # {}
    /\ broken' = <<>>
    /\ pc' = "submit"
    /\ UNCHANGED <<envVars, crawlVars, links, pending, running, done, calls,
                   submits, outcomes, exit_code, harnessVars>>

\* Line 128: one executor.submit per element of links; the comprehension
\* ends, and as_completed starts, after the last one.
Submit ==
    /\ pc = "submit"
    /\ \E url \in links :
        /\ submits[url] = 0
        /\ submits' = [submits EXCEPT ![url] = @ + 1]
        /\ pending' = Append(pending, url)
        /\ pc' = IF \A u \in links \ {url} : submits[u] > 0 THEN "collect" ELSE "submit"
    /\ UNCHANGED <<envVars, crawlVars, links, running, done, calls, outcomes,
                   broken, exit_code, harnessVars>>

\* WorkerStart with a pool that keeps one of its slots unused.
WorkerStartShort ==
    /\ pending # <<>>
    /\ Cardinality(running) < workers - 1
    /\ running' = running \cup {Head(pending)}
    /\ calls' = [calls EXCEPT ![Head(pending)] = @ + 1]
    /\ pending' = Tail(pending)
    /\ UNCHANGED <<envVars, pc, crawlVars, links, done, submits, outcomes,
                   broken, exit_code, harnessVars>>

\* A free worker thread takes the oldest work item and calls check_link.
WorkerStart ==
    /\ pending # <<>>
    /\ Cardinality(running) < workers
    /\ running' = running \cup {Head(pending)}
    /\ calls' = [calls EXCEPT ![Head(pending)] = @ + 1]
    /\ pending' = Tail(pending)
    /\ UNCHANGED <<envVars, pc, crawlVars, links, done, submits, outcomes,
                   broken, exit_code, harnessVars>>

\* WorkerFinish with a retry: a broken link is queued once more.
WorkerFinishRetry ==
    /\ \E url \in running, head \in PoolAnswers :
        /\ running' = running \ {url}
        /\ IF ~check_link(url, head)[2] /\ calls[url] < 2
           THEN pending' = Append(pending, url) /\ done' = done
           ELSE pending' = pending /\ done' = done \cup {check_link(url, head)}
    /\ UNCHANGED <<envVars, pc, crawlVars, links, calls, submits,
                   outcomes, broken, exit_code, harnessVars>>

\* WorkerFinish with the append to broken made in the worker thread.
WorkerFinishAppends ==
    /\ \E url \in running, head \in PoolAnswers :
        /\ done' = done \cup {check_link(url, head)}
        /\ running' = running \ {url}
        /\ broken' = IF ~check_link(url, head)[2]
                     THEN Append(broken, <<url, check_link(url, head)[3]>>)
                     ELSE broken
    /\ UNCHANGED <<envVars, pc, crawlVars, links, pending, calls, submits,
                   outcomes, exit_code, harnessVars>>

\* check_link returns (the HEAD request answered or raised): the future is done.
WorkerFinish ==
    /\ \E url \in running, head \in PoolAnswers :
        /\ done' = done \cup {check_link(url, head)}
        /\ running' = running \ {url}
    /\ UNCHANGED <<envVars, pc, crawlVars, links, pending, calls, submits,
                   outcomes, broken, exit_code, harnessVars>>

\* Collect with broken rebound to a new list instead of appended to.
CollectOverwrites ==
    /\ pc = "collect"
    /\ \E result \in done :
        /\ done' = done \ {result}
        /\ outcomes' = Append(outcomes, result)
        /\ broken' = IF ~result[2] THEN <<<<result[1], result[3]>>>> ELSE broken
    /\ UNCHANGED <<envVars, pc, crawlVars, links, pending, running, calls,
                   submits, exit_code, harnessVars>>

\* Lines 129-135: as_completed yields a finished future.
Collect ==
    /\ pc = "collect"
    /\ \E result \in done :
        LET url == result[1]
            ok == result[2]
            status == result[3]
        IN  /\ done' = done \ {result}
            /\ outcomes' = Append(outcomes, result)
            /\ broken' = IF ~ok THEN Append(broken, <<url, status>>) ELSE broken
    /\ UNCHANGED <<envVars, pc, crawlVars, links, pending, running, calls,
                   submits, exit_code, harnessVars>>

\* Lines 140-149 with the two exits swapped.
DispositionSwapped(broken_list) == IF broken_list # <<>> THEN 0 ELSE 2

\* Lines 140, 146, 149: the exit status of a run that checked links.
Disposition(broken_list) == IF broken_list # <<>> THEN 2 ELSE 0

\* Summarize as soon as no finished future waits, pending ones or not.
SummarizeEarly ==
    /\ pc = "collect"
    /\ done = {}
    /\ exit_code' = Disposition(broken)
    /\ pc' = "exited"
    /\ UNCHANGED <<envVars, crawlVars, links, poolVars, harnessVars>>

\* Lines 137-149: every future was yielded; the summary and the exit.
Summarize ==
    /\ pc = "collect"
    /\ Len(outcomes) = Cardinality(links)
    /\ exit_code' = Disposition(broken)
    /\ pc' = "exited"
    /\ UNCHANGED <<envVars, crawlVars, links, poolVars, harnessVars>>

(***************************************************************************)
(* The whole run of main(), on the webs with at most MaxSiteLinks links.   *)
(***************************************************************************)
MaxSiteLinks == 2

SiteLinks(w) == UNION {{<<r, h>> : h \in w[r]} : r \in Urls}

Init ==
    /\ World
    /\ Cardinality(SiteLinks(web)) <= MaxSiteLinks
    /\ workers \in 1..MaxWorkers
    /\ pc = "main"
    /\ visited = {}
    /\ to_visit = <<>>
    /\ all_links = {}
    /\ fetchLog = [u \in Urls |-> <<>>]
    /\ links = {}
    /\ IdlePool
    /\ exit_code = NotExited
    /\ IdleHarness

Next ==
    \/ MainCrawl
    \/ CrawlSkip
    \/ CrawlFetchFailed
    \/ CrawlExpand
    \/ CrawlReturn
    \/ MainSeedUnfetchable
    \/ MainSinglePage
    \/ MainNoLinks
    \/ MainDispatch
    \/ Submit
    \/ WorkerStart
    \/ WorkerFinish
    \/ Collect
    \/ Summarize

Spec == Init /\ [][Next]_vars

(***************************************************************************)
(* The verifier on its own: check_link called for one URL whose server     *)
(* answers HEAD with probe.head and would answer GET with probe.get.       *)
(***************************************************************************)
InitVerify ==
    /\ web = [r \in Urls |-> {}]
    /\ down = {}
    /\ depth = 0
    /\ same_domain_only = FALSE
    /\ workers = 1
    /\ pc = "verify"
    /\ visited = {}
    /\ to_visit = <<>>
    /\ all_links = {}
    /\ fetchLog = [u \in Urls |-> <<>>]
    /\ links = {}
    /\ IdlePool
    /\ exit_code = NotExited
    /\ probe \in [url : Urls, head : Answers, get : Answers]
    /\ verdict = NoVerdict
    /\ given = NoDocument
    /\ extracted = {}

Verify ==
    /\ pc = "verify"
    /\ verdict' = check_link(probe.url, probe.head)
    /\ pc' = "verified"
    /\ UNCHANGED <<envVars, crawlVars, links, poolVars, exit_code, probe, given, extracted>>

NextVerify == Verify

SpecVerify == InitVerify /\ [][NextVerify]_vars


(***************************************************************************)
(* The link graph of the environment.                                      *)
(***************************************************************************)
\* The links extract_links finds on the page of u.
LinkTargets(u) == extract_links(u, web[Resource(u)])

\* The URLs at link distance at most n from the seed.
RECURSIVE Within(_)
Within(n) ==
    IF n = 0 THEN {Seed}
    ELSE Within(n - 1) \cup UNION {LinkTargets(u) : u \in Within(n - 1)}

\* The same, over the links a crawl can follow: those of pages that are
\* fetched successfully, and that pass the domain filter.
RECURSIVE Frontier(_)
Frontier(n) ==
    IF n = 0 THEN {Seed}
    ELSE Frontier(n - 1)
            \cup UNION {Kept(LinkTargets(u)) : u \in Frontier(n - 1) \ down}

Fetched == {u \in Urls : fetchLog[u] # <<>>}
FetchedAt(d) == {u \in Urls : \E k \in 1..Len(fetchLog[u]) : fetchLog[u][k] = d}

(***************************************************************************)
(* C1. With maxDepth = N (depth), crawl fetches no URL whose shortest link *)
(* distance from the seed exceeds N; the links of a page fetched at depth  *)
(* N are in the result set and are not enqueued (no work-list entry has a  *)
(* depth above N).                                                         *)
(***************************************************************************)
C1_DepthBound ==
    /\ \A u \in Fetched : u \in Within(depth)
    /\ \A i \in 1..Len(to_visit) : to_visit[i][2] <= depth
    /\ \A u \in FetchedAt(depth) \ down :
        \A link \in LinkTargets(u) :
            (same_domain_only /\ link.netloc # Seed.netloc) \/ link \in all_links

\* A page fetched at depth N >= 1 carries a link to a URL farther than N from
\* the seed: at the return that URL is in the result and was never fetched.
C1_Witness ==
    /\ pc = "found"
    /\ depth >= 1
    /\ \E u \in FetchedAt(depth) \ down :
        \E link \in LinkTargets(u) :
            /\ link \notin Within(depth)
            /\ link \in links
            /\ link \notin Fetched

(***************************************************************************)
(* C2. crawl returns exactly the links that pass the domain filter and are *)
(* found on the successfully fetched pages at link distance at most N from *)
(* the seed, whatever the order in which the work list hands them out.     *)
(***************************************************************************)
WithinBoundLinks == UNION {Kept(LinkTargets(u)) : u \in Frontier(depth) \ down}

C2_OrderIndependentResult == pc = "found" => links = WithinBoundLinks

(***************************************************************************)
(* C3. With same_domain_only set, every URL of the result has the seed's   *)
(* host, and no URL of another host is ever on the work list.              *)
(***************************************************************************)
C3_SameDomain ==
    same_domain_only =>
        /\ \A l \in links \cup all_links : l.netloc = Seed.netloc
        /\ \A i \in 1..Len(to_visit) : to_visit[i][1].netloc = Seed.netloc

\* The seed's page, fetched, links to the other host and to its own; the
\* filtered link set has been handed on.
C3_Witness ==
    /\ same_domain_only
    /\ pc = "found"
    /\ Seed \notin down
    /\ \E l \in LinkTargets(Seed) : l.netloc # Seed.netloc
    /\ links # {}


(***************************************************************************)
(* C4. check_link escalates to GET when HEAD answers a status >= 400, and  *)
(* the GET's status decides: >= 400 on HEAD and 200 on GET is Healthy.     *)
(***************************************************************************)
C4_EscalationOverrides ==
    (/\ pc = "verified"
     /\ probe.head.error = ""
     /\ probe.head.code >= 400
     /\ probe.get = Status(200))
        => verdict = <<probe.url, TRUE, Status(200)>>

(***************************************************************************)
(* C5. When HEAD and GET answer the same status s, check_link returns      *)
(* Healthy(s) for s < 400 and Broken(s) for s >= 400.                      *)
(***************************************************************************)
C5_SameStatus ==
    (/\ pc = "verified"
     /\ probe.head.error = ""
     /\ probe.get = probe.head)
        => verdict = <<probe.url, probe.head.code < 400, Status(probe.head.code)>>

\* 404 on HEAD and on GET, reported Broken(404).
C5_Witness ==
    /\ pc = "verified"
    /\ probe.head = Status(404)
    /\ probe.get = Status(404)
    /\ verdict = <<probe.url, FALSE, Status(404)>>

(***************************************************************************)
(* The run's summary has been produced (lines 137-149 ran).                *)
(***************************************************************************)
Summarized == pc = "exited" /\ links # {}

OutcomesOf(u) == {i \in 1..Len(outcomes) : outcomes[i][1] = u}
Healthy == {i \in 1..Len(outcomes) : outcomes[i][2]}
Broken == {i \in 1..Len(outcomes) : ~outcomes[i][2]}

(***************************************************************************)
(* C6. The pipeline submits and verifies every URL of its input at most    *)
(* once and collects at most one outcome for it; at the summary it has     *)
(* done each exactly once, and nothing for a URL outside the input.        *)
(***************************************************************************)
C6_ExactlyOnce ==
    /\ \A u \in Urls :
        /\ submits[u] <= 1
        /\ calls[u] <= submits[u]
        /\ Cardinality(OutcomesOf(u)) <= calls[u]
        /\ u \notin links => submits[u] = 0
    /\ Summarized =>
        \A u \in links :
            submits[u] = 1 /\ calls[u] = 1 /\ Cardinality(OutcomesOf(u)) = 1

\* Two URLs, one worker: both verified and collected, one of them broken.
C6_Witness ==
    /\ Summarized
    /\ workers = 1
    /\ Cardinality(links) = 2
    /\ Broken # {}
    /\ Healthy # {}

(***************************************************************************)
(* C7. At the summary the reported total (len(links)) is the number K of   *)
(* URLs submitted, and len(broken) plus the number of healthy outcomes is  *)
(* K.                                                                      *)
(***************************************************************************)
C7_Totals ==
    Summarized =>
        /\ Cardinality(links) = Cardinality({u \in Urls : submits[u] > 0})
        /\ Len(broken) + Cardinality(Healthy) = Cardinality(links)

\* A summary over two URLs with one broken entry and one healthy outcome.
C7_Witness ==
    /\ Summarized
    /\ Cardinality(links) = 2
    /\ Len(broken) = 1
    /\ Cardinality(Healthy) = 1

(***************************************************************************)
(* C8. At the summary the broken list, as a set, is the set of the         *)
(* (url, reason) pairs of the Broken outcomes, each listed once, whatever  *)
(* the order in which the tasks completed.                                 *)
(***************************************************************************)
C8_BrokenSet ==
    Summarized =>
        /\ Range(broken) = {<<outcomes[i][1], outcomes[i][3]>> : i \in Broken}
        /\ Len(broken) = Cardinality(Broken)
        /\ \A i \in Healthy : \A k \in 1..Len(broken) : broken[k][1] # outcomes[i][1]

\* Two broken links whose tasks completed in the order opposite to their
\* paths' order, a status and a transport error.
C8_Witness ==
    /\ Summarized
    /\ Len(broken) = 2
    /\ broken[1][1].path = "/q"
    /\ broken[2][1].path = "/p"
    /\ broken[1][2] = Raised("timeout")
    /\ broken[2][2] = Status(404)

(***************************************************************************)
(* C9. When at least one link was checked, the exit code is 2 exactly when *)
(* some outcome is Broken and 0 exactly when every outcome is Healthy.     *)
(***************************************************************************)
C9_ExitCode ==
    Summarized =>
        /\ exit_code = 2 <=> Broken # {}
        /\ exit_code = 0 <=> Broken = {}
        /\ exit_code \in {0, 2}

\* A run that checked links, all healthy, and exited 0.
C9_Witness ==
    /\ Summarized
    /\ exit_code = 0
    /\ Cardinality(Healthy) = Cardinality(links)

(***************************************************************************)
(* C10. If the seed page cannot be fetched the run ends with exit code 1,  *)
(* for every depth, and dispatches no verification task.                   *)
(***************************************************************************)
C10_SeedFailureFatal ==
    (pc = "exited" /\ Seed \in down) =>
        /\ exit_code = 1
        /\ \A u \in Urls : submits[u] = 0 /\ calls[u] = 0

(***************************************************************************)
(* C11. If the seed page is fetched but the link set handed to the         *)
(* verification is empty (after the domain filter), the run ends with exit *)
(* code 1.                                                                 *)
(***************************************************************************)
C11_NoLinksFatal ==
    (pc = "exited" /\ Seed \notin down /\ links = {}) => exit_code = 1

(***************************************************************************)
(* The crawler under the fairness its scheduling gives: crawl is one       *)
(* sequential loop whose only blocking call, requests.get, returns or      *)
(* times out, so an iteration that can run does run.                       *)
(***************************************************************************)
SpecCrawlFair == InitCrawl /\ [][NextCrawl]_vars /\ WF_vars(NextCrawl)

(***************************************************************************)
(* C12. crawl terminates: the work list becomes empty and crawl returns,   *)
(* whatever the fetch outcomes, shared link targets and link cycles.       *)
(***************************************************************************)
C12_CrawlTerminates == <>(pc = "found" /\ to_visit = <<>>)

\* A crawl over a link cycle through the seed has returned.
C12_Witness ==
    /\ pc = "found"
    /\ to_visit = <<>>
    /\ depth >= 1
    /\ Seed \in links

(***************************************************************************)
(* The extractor on its own: extract_links(base_url, html) called on the   *)
(* documents of at most MaxHrefs <a href> values drawn from the shapes an  *)
(* href takes: absolute, root-relative, scheme-relative, fragment-only,    *)
(* each with or without a fragment, and the javascript: and mailto:        *)
(* pseudo-protocols.                                                       *)
(***************************************************************************)
MaxHrefs == 3

Href(s, n, p, f) == [scheme |-> s, netloc |-> n, path |-> p, fragment |-> f]

ExtractHrefs ==
    {Href("https", SeedHost, "/p", ""),      \* https://a.test/p
     Href("https", SeedHost, "/p", "top"),   \* https://a.test/p#top
     Href("http", OtherHost, "/", ""),       \* http://x.test/
     Href("", OtherHost, "/", ""),           \* //x.test/
     Href("", "", "/q", ""),                 \* /q
     Href("", "", "/q", "top"),              \* /q#top
     Href("", "", "", "top"),                \* #top
     Href("javascript", "", "void(0)", ""),  \* javascript:void(0)
     Href("mailto", "", "a@a.test", "")}     \* mailto:a@a.test

\* The base URLs: the pages of the universe, and https://a.test (empty path).
ExtractBases == Urls \cup {Url(SeedHost, "")}

ExtractDocs == {d \in SUBSET ExtractHrefs : Cardinality(d) <= MaxHrefs}

\* "#" in url: urlunparse writes "#" exactly before a non-empty fragment.
HasHash(url) == url.fragment # ""

InitExtract ==
    /\ web = [r \in Urls |-> {}]
    /\ down = {}
    /\ depth = 0
    /\ same_domain_only = FALSE
    /\ workers = 1
    /\ pc = "extract"
    /\ visited = {}
    /\ to_visit = <<>>
    /\ all_links = {}
    /\ fetchLog = [u \in Urls |-> <<>>]
    /\ links = {}
    /\ IdlePool
    /\ exit_code = NotExited
    /\ probe = NoProbe
    /\ verdict = NoVerdict
    /\ given \in [base_url : ExtractBases, html : ExtractDocs]
    /\ extracted = {}

Extract ==
    /\ pc = "extract"
    /\ extracted' = extract_links(given.base_url, given.html)
    /\ pc' = "extracted"
    /\ UNCHANGED <<envVars, crawlVars, links, poolVars, exit_code, probe, verdict, given>>

NextExtract == Extract

SpecExtract == InitExtract /\ [][NextExtract]_vars

(***************************************************************************)
(* C13. No URL returned by extract_links contains "#": fragment-only hrefs *)
(* are excluded and fragments are stripped from the resolved URLs.         *)
(***************************************************************************)
C13_NoFragment ==
    pc = "extracted" => \A link \in extracted : ~HasHash(link)

(***************************************************************************)
(* C14. In one crawl every URL is fetched at most once, however many pages *)
(* link to it and however often and at whatever depths it is on the work   *)
(* list.                                                                   *)
(***************************************************************************)
C14_FetchedOnce == \A u \in Urls : Len(fetchLog[u]) <= 1

\* A URL already fetched sits on the work list again, at a depth within the
\* bound, put there by two different pages.
C14_Witness ==
    \E i \in 1..Len(to_visit) :
        LET u == to_visit[i][1]
        IN  /\ Len(fetchLog[u]) = 1
            /\ to_visit[i][2] <= depth
            /\ to_visit[i][2] # fetchLog[u][1]
            /\ Cardinality({p \in Fetched \ down : u \in LinkTargets(p)}) >= 2

(***************************************************************************)
(* The pipeline's phase: Idle (0) until the executor exists, Dispatching   *)
(* (1) during the submits of line 128, Collecting (2) in the as_completed  *)
(* loop, Summarized (3) once lines 137-149 ran.  A run that exits without  *)
(* dispatching stays Idle.                                                 *)
(***************************************************************************)
Phase ==
    CASE pc = "submit" -> 1
      [] pc = "collect" -> 2
      [] pc = "exited" /\ links # {} -> 3
      [] OTHER -> 0

\* Every dispatched task has completed and its outcome has been collected.
AllCollected ==
    /\ pending = <<>>
    /\ running = {}
    /\ done = {}
    /\ \A u \in links : submits[u] = 1 /\ calls[u] = 1 /\ OutcomesOf(u) # {}

(***************************************************************************)
(* C15. The phases follow one another in the order Idle, Dispatching,      *)
(* Collecting, Summarized; the summary and the exit come only when every   *)
(* dispatched task has completed and been collected; nothing is collected  *)
(* after the summary.                                                      *)
(***************************************************************************)
C15_SummaryLast ==
    [][/\ Phase' \in {Phase, Phase + 1}
       /\ Phase' = 3 => AllCollected'
       /\ exit_code' \in {0, 2} /\ links' # {} => Phase' = 3
       /\ Phase = 3 => outcomes' = outcomes /\ broken' = broken /\ exit_code' = exit_code]_vars

\* Two tasks on two workers, both collected, then the summary with exit 2.
C15_Witness ==
    /\ Phase = 3
    /\ workers = 2
    /\ Len(outcomes) = 2
    /\ exit_code = 2
    /\ AllCollected

(***************************************************************************)
(* main() under the fairness its scheduling gives: the main thread keeps   *)
(* running, an idle worker thread takes queued work, and every network     *)
(* call returns or raises within its timeout.                              *)
(***************************************************************************)
MainThread ==
    \/ MainCrawl
    \/ CrawlSkip
    \/ CrawlFetchFailed
    \/ CrawlExpand
    \/ CrawlReturn
    \/ MainSeedUnfetchable
    \/ MainSinglePage
    \/ MainNoLinks
    \/ MainDispatch
    \/ Submit
    \/ Collect
    \/ Summarize

SpecFair ==
    /\ Init
    /\ [][Next]_vars
    /\ WF_vars(MainThread)
    /\ WF_vars(WorkerStart)
    /\ WF_vars(WorkerFinish)

(***************************************************************************)
(* C16. For K >= 1 URLs and W >= 1 workers, K > W included, every          *)
(* submitted verification task eventually completes and is collected, and  *)
(* the run reaches the summary.                                            *)
(***************************************************************************)
C16_AllTasksComplete ==
    \A u \in Urls : (submits[u] > 0) ~> (Phase = 3 /\ OutcomesOf(u) # {})

\* More URLs than workers, all healthy, and the summary was reached.
C16_Witness ==
    /\ Phase = 3
    /\ Cardinality(links) > workers
    /\ Cardinality(Healthy) = Cardinality(links)

(***************************************************************************)
(* C17. broken is written only by the collector, the main thread's         *)
(* as_completed loop: a step that changes broken is a step of that loop    *)
(* that appends the one pair of the result it takes, and it is no step of  *)
(* a worker thread (the work queue and the running calls are untouched).   *)
(***************************************************************************)
C17_SingleWriter ==
    [][broken' # broken =>
        /\ pc = "collect"
        /\ pending' = pending /\ running' = running /\ calls' = calls
        /\ \E result \in done :
            /\ ~result[2]
            /\ done' = done \ {result}
            /\ outcomes' = Append(outcomes, result)
            /\ broken' = Append(broken, <<result[1], result[3]>>)]_vars

\* The collector has recorded a broken link while a worker is still inside
\* check_link for another URL.
C17_Witness ==
    /\ pc = "collect"
    /\ broken # <<>>
    /\ running # {}

(***************************************************************************)
(* C18. A fetch failure on a non-seed page does not abort the crawl: the   *)
(* URL is marked visited and stays in the result set, the result set is    *)
(* unchanged, exactly the failed entry leaves the work list, and crawl     *)
(* goes on and returns only when the work list is empty.                   *)
(***************************************************************************)
C18_FailureSwallowed ==
    [][/\ \A u \in down \ {Seed} :
            Len(fetchLog'[u]) > Len(fetchLog[u]) =>
                /\ visited' = visited \cup {u}
                /\ u \in all_links
                /\ all_links' = all_links
                /\ to_visit' = SubSeq(to_visit, 1, Len(to_visit) - 1)
                /\ pc' = "crawl"
                /\ links' = links
       /\ visited \subseteq visited'
       /\ all_links \subseteq all_links'
       /\ pc = "crawl" /\ pc' # "crawl" => to_visit = <<>>]_vars

\* A non-seed page has just failed to fetch and the next entry of the work
\* list is one the crawl will fetch.
C18_Witness ==
    /\ pc = "crawl"
    /\ to_visit # <<>>
    /\ ~Discarded(Top[1], Top[2])
    /\ \E u \in down \ {Seed} : Len(fetchLog[u]) = 1 /\ u \in visited /\ u \in all_links

(***************************************************************************)
(* C19. check_link never raises: it always returns a triple for its URL,   *)
(* and when the request fails at the transport level the triple is Broken  *)
(* with the error's description as the reason.                             *)
(***************************************************************************)
C19_TransportErrorIsBroken ==
    pc = "verified" =>
        /\ verdict[1] = probe.url
        /\ verdict[2] \in BOOLEAN
        /\ probe.head.error # "" =>
            verdict = <<probe.url, FALSE, [code |-> 0, error |-> probe.head.error]>>

\* The request timed out: Broken("timeout").
C19_Witness ==
    /\ pc = "verified"
    /\ probe.head.error = "timeout"
    /\ ~verdict[2]
    /\ verdict[3].error = "timeout"

(***************************************************************************)
(* C20. crawl(seed, 0, f) fetches the seed and nothing else, once, and     *)
(* returns the link set the depth-0 branch of main computes from           *)
(* fetch_page, extract_links and the host filter for the same seed and     *)
(* flag (no links when the seed's fetch fails).                            *)
(***************************************************************************)
C20_DepthZeroIsSinglePage ==
    (pc = "found" /\ depth = 0) =>
        /\ \A u \in Urls : Len(fetchLog[u]) = (IF u = Seed THEN 1 ELSE 0)
        /\ \A fault \in Faults :
            LET html == fetch_page(Seed, fault)
            IN  links = IF Falsy(html) THEN {} ELSE SinglePageLinks(html)

\* crawl at depth 0 with the filter on returned the seed's own-host links
\* and left a link to the other host out.
C20_Witness ==
    /\ pc = "found"
    /\ depth = 0
    /\ same_domain_only
    /\ Fetched = {Seed}
    /\ links # {}
    /\ \E l \in LinkTargets(Seed) : l \notin links

=============================================================================
